---- MODULE Spec2Model ----
(***************************************************************************)
(* Cosmic-Sky: the Starfield frame loop (pause / resume / dispose,         *)
(* repopulation) and the Star class with its class-level shooting-star     *)
(* budget.  The Starfield modelled is the current one (the class with      *)
(* pause/resume, its text follows the prose of src/README.md); the Star    *)
(* modelled is src/js/star.js.  Times are milliseconds.                    *)
(***************************************************************************)
EXTENDS Integers, Sequences, FiniteSets, TLC

VARIABLES
    stars,                  \* Starfield.stars: sequence of Star records
    options,                \* Starfield.options (population fields)
    mouse,                  \* Starfield.mouse (present = FALSE is null)
    animationId,            \* Starfield.animationId (NoRequest is null)
    isPaused,               \* Starfield._isPaused (undefined is FALSE)
    lastTime,               \* Starfield.lastTime
    pending,                \* the host's set of pending requestAnimationFrame ids
    now,                    \* the host clock, performance.now()
    shootingStarsCount,     \* Star.shootingStarsCount
    lastShootingStarTime,   \* Star.lastShootingStarTime
    nextShootingStarDelay,  \* Star.nextShootingStarDelay
    settings,               \* Star.settings
    orphanedTweens,         \* gsap holds tweens of particles dropped from stars
    lastStart,              \* history: the last shoot-event start (time, delay)
    startedTooEarly,        \* history: a start came before the previous delay was over
    op,                     \* history: the last operation called
    particle,               \* one Star with its blink, motion and draw state (SpecStar)
    field,                  \* Starfield canvas, background and connection state (SpecField)
    knobs                   \* the values the numeric mutators store (SpecKnobs)

vars == <<stars, options, mouse, animationId, isPaused, lastTime, pending, now,
          shootingStarsCount, lastShootingStarTime, nextShootingStarDelay,
          settings, orphanedTweens, lastStart, startedTooEarly,
          op, particle, field, knobs>>

----------------------------------------------------------------------------
(* Bounds of the model *)

MaxStarCount == 2        \* largest options.starCount under Spec
PopMaxStarCount == 10    \* largest options.starCount under SpecPop
MaxClusterCount == 2     \* largest options.clusterCount
MaxPerCluster == 2       \* largest options.maxStarsPerCluster
MaxTicks == 3            \* the clock runs to MaxTicks * FrameMs
FrameMs == 1000          \* clock resolution in ms
RandDen == 2             \* Math.random() is sampled as k / RandDen, k < RandDen
MaxIds == 3              \* request ids in use at one time
MaxSettingStars == 1     \* largest maxStarsAtOnce passed to updateShootingStarSettings
DprDen == 4              \* devicePixelRatio is sampled in DprDen-ths

ZSamples == {1, 2}       \* samples of the zIndex draw Math.random()
OffsetSamples == {0, 1}  \* samples of the offset resize adds to a star's origin
RandomSamples == 0 .. (RandDen - 1)

----------------------------------------------------------------------------
(* Program constants *)

NoRequest == 0                   \* animationId = null
DefaultMaxStarsAtOnce == 3
DefaultMaxShootDurationSeconds == 3
DefaultMaxEventSeconds == 6
minDelayMs == 100
BaseShootMs == 1000
MsPerSecond == 1000
ClusterShareNum == 2             \* 0.2 = ClusterShareNum / ClusterShareDen
ClusterShareDen == 10
BaseBlinkMs == 500               \* blinkDuration = 500 + Math.random() * 1000
BlinkSpanMs == 1000
DrawFills == 3                   \* ctx.fill() calls of one Star.draw
DefaultConnectionDistance == 150
MinTrailFade == 1                \* 0.01, in hundredths
MaxTrailFade == 100              \* 1.0
DefaultTrailFade == 5            \* 0.05
MaxIntensity == 100              \* 1, in hundredths
DefaultIntensity == 20           \* parallaxConfig.intensity = 0.2
DefaultMaxOffset == 100          \* parallaxConfig.maxOffset

----------------------------------------------------------------------------
(* JavaScript numbers as far as createStars needs them: a finite integer,  *)
(* NaN or Infinity.                                                        *)

Fin(n) == [kind |-> "finite", val |-> n]
NaN == [kind |-> "NaN", val |-> 0]
Infinity == [kind |-> "Infinity", val |-> 0]
Undefined == [kind |-> "undefined", val |-> 0]

\* Math.floor(a / b) for integers a >= 0, b >= 0
JsFloorDiv(a, b) ==
    IF b = 0 THEN (IF a = 0 THEN NaN ELSE Infinity) ELSE Fin(a \div b)

\* Math.min(x, m) for a finite m
JsMin(x, m) ==
    IF x.kind = "NaN" THEN NaN
    ELSE IF x.kind = "Infinity" THEN Fin(m)
    ELSE Fin(IF x.val < m THEN x.val ELSE m)

\* Math.max(m, x) for a finite m
JsMax(m, x) ==
    IF x.kind = "NaN" THEN NaN
    ELSE IF x.kind = "Infinity" THEN Infinity
    ELSE Fin(IF x.val > m THEN x.val ELSE m)

\* c * x for an integer c >= 0
JsMul(c, x) ==
    IF x.kind = "NaN" THEN NaN
    ELSE IF x.kind = "Infinity" THEN (IF c = 0 THEN NaN ELSE Infinity)
    ELSE Fin(c * x.val)

\* n - x for an integer n; x is never +Infinity here with n - x used as a count
JsSub(n, x) ==
    IF x.kind = "finite" THEN Fin(n - x.val) ELSE NaN

\* number of iterations of  for (let i = 0; i < x; i++)
LoopCount(x) ==
    IF x.kind = "finite" /\ x.val > 0 THEN x.val ELSE 0

----------------------------------------------------------------------------
(* Star construction and Starfield.createStars *)

NewStar(z, inCluster) ==
    [ zIndex |-> z,
      isShooting |-> FALSE,
      shootStartTime |-> 0,
      shootDuration |-> 0,
      x |-> 0,                      \* x - originX (the offsets of update are left out)
      clustered |-> inCluster ]     \* history: created by createClusters

\* const clusteredStars = Math.floor(starCount * 0.2)
ClusteredStars(starCount) == (starCount * ClusterShareNum) \div ClusterShareDen

\* the per-cluster count without the cap maxStarsPerCluster
StarsPerCluster_uncapped(o) ==
    JsFloorDiv(ClusteredStars(o.starCount), o.clusterCount)

\* const starsPerCluster = Math.min(Math.floor(clusteredStars / clusterCount), maxStarsPerCluster)
StarsPerCluster(o) ==
    JsMin(JsFloorDiv(ClusteredStars(o.starCount), o.clusterCount), o.maxStarsPerCluster)

\* createClusters pushes count * starsPerCluster stars
createClusters(count, starsPerCluster) == count * LoopCount(starsPerCluster)

ClusterTotal(o) ==
    IF o.clustersEnabled THEN createClusters(o.clusterCount, StarsPerCluster(o)) ELSE 0

\* let remainingStars = starCount, or starCount - (clusterCount * starsPerCluster)
RemainingStars(o) ==
    IF o.clustersEnabled
    THEN JsSub(o.starCount, JsMul(o.clusterCount, StarsPerCluster(o)))
    ELSE Fin(o.starCount)

RECURSIVE InsertByZ(_, _)
\* stable insertion of s into a sequence sorted ascending by zIndex
InsertByZ(sorted, s) ==
    IF sorted = <<>> THEN <<s>>
    ELSE IF Head(sorted).zIndex <= s.zIndex
         THEN <<Head(sorted)>> \o InsertByZ(Tail(sorted), s)
         ELSE <<s>> \o sorted

\* a createStars that leaves the collection in creation order
SortByZ_creationOrder(ss) == ss

RECURSIVE SortByZ(_)
\* this.stars.sort((a, b) => a.zIndex - b.zIndex)
SortByZ(ss) ==
    IF ss = <<>> THEN <<>>
    ELSE InsertByZ(SortByZ(SubSeq(ss, 1, Len(ss) - 1)), ss[Len(ss)])

\* the collections createStars can leave when it runs to its end
createStars(o) ==
    LET nc == ClusterTotal(o)
        nd == LoopCount(RemainingStars(o))
        n == nc + nd
    IN { SortByZ([i \in 1 .. n |-> NewStar(zs[i], i <= nc)]) : zs \in [1 .. n -> ZSamples] }

OptionSpace(maxCount) ==
    [ starCount : 0 .. maxCount,
      clustersEnabled : BOOLEAN,
      clusterCount : 0 .. MaxClusterCount,
      maxStarsPerCluster : 0 .. MaxPerCluster ]

----------------------------------------------------------------------------
(* Star: the class-level shooting budget and the per-frame update.  The    *)
(* budget b carries Star.shootingStarsCount (count), lastShootingStarTime  *)
(* (last), nextShootingStarDelay (delay) and the two history values.       *)

DefaultSettings ==
    [ enabled |-> FALSE,
      maxStarsAtOnce |-> DefaultMaxStarsAtOnce,
      maxShootDurationSeconds |-> DefaultMaxShootDurationSeconds,
      maxEventSeconds |-> DefaultMaxEventSeconds ]

NoStart == [any |-> FALSE, time |-> 0, delay |-> 0]

Budget ==
    [ count |-> shootingStarsCount,
      last |-> lastShootingStarTime,
      delay |-> nextShootingStarDelay,
      lastStart |-> lastStart,
      early |-> startedTooEarly ]

\* Math.random() * x, for the sample k / RandDen of Math.random()
RandomTimes(k, x) == (k * x) \div RandDen

\* the guard of startShooting: it returns false when this holds
StartRefused(st, b, time) ==
    \/ ~st.enabled
    \/ b.count >= st.maxStarsAtOnce
    \/ (b.last # 0 /\ time - b.last < b.delay)

\* Star.startShooting(time): the outcomes over the two random draws
startShooting(s, st, b, time) ==
    IF StartRefused(st, b, time)
    THEN { [star |-> s, b |-> b] }
    ELSE { [ star |-> [s EXCEPT !.isShooting = TRUE,
                                !.shootStartTime = time,
                                !.shootDuration = BaseShootMs
                                    + RandomTimes(kd, st.maxShootDurationSeconds * MsPerSecond)],
             b |-> [ count |-> b.count + 1,
                     last |-> time,
                     delay |-> minDelayMs
                         + RandomTimes(ke, st.maxEventSeconds * MsPerSecond - minDelayMs),
                     lastStart |-> [ any |-> TRUE, time |-> time,
                                     delay |-> minDelayMs
                                        + RandomTimes(ke, st.maxEventSeconds * MsPerSecond - minDelayMs) ],
                     early |-> \/ b.early
                               \/ /\ b.lastStart.any
                                  /\ b.lastStart.time <= time
                                  /\ time - b.lastStart.time < b.lastStart.delay ] ]
           : kd \in RandomSamples, ke \in RandomSamples }

\* a completion test that reads shootDuration as seconds
ShootComplete_inSeconds(s, time) ==
    time - s.shootStartTime >= s.shootDuration * MsPerSecond

\* shootProgress >= 1, with shootProgress = (time - shootStartTime) / shootDuration
\* and shootDuration >= BaseShootMs > 0 on every star that has started
ShootComplete(s, time) == time - s.shootStartTime >= s.shootDuration

\* the condition of the else-if branch of update that starts a shoot
MayStart(s, st, b, time) ==
    /\ st.enabled
    /\ ~s.isShooting
    /\ b.count < st.maxStarsAtOnce
    /\ (b.last = 0 \/ time - b.last > b.delay)

\* Star.update(time, mouse, maxDistance): the shooting part
update(s, st, b, time) ==
    IF st.enabled /\ s.isShooting
    THEN IF ShootComplete(s, time)
         THEN { [ star |-> [s EXCEPT !.isShooting = FALSE],
                  b |-> [b EXCEPT !.count = @ - 1] ] }
         ELSE { [star |-> s, b |-> b] }
    ELSE IF MayStart(s, st, b, time)
         THEN startShooting(s, st, b, time)
         ELSE { [star |-> s, b |-> b] }

RECURSIVE updateStarsFrom(_, _, _, _, _)
updateStarsFrom(ss, i, st, b, time) ==
    IF i > Len(ss)
    THEN { [stars |-> ss, b |-> b] }
    ELSE UNION { updateStarsFrom([ss EXCEPT ![i] = o.star], i + 1, st, o.b, time)
                 : o \in update(ss[i], st, b, time) }

\* Starfield.updateStars(time, deltaTime): stars.forEach(star => star.update(...))
updateStars(ss, st, b, time) == updateStarsFrom(ss, 1, st, b, time)

\* Star.updateShootingStarSettings(settings); 0 stands for an absent (or zero) number
updateShootingStarSettings(st, en, maxStars, maxDur, maxEv) ==
    [ enabled |-> IF en = "undefined" THEN st.enabled ELSE (en = "true"),
      maxStarsAtOnce |-> IF maxStars # 0 THEN maxStars ELSE st.maxStarsAtOnce,
      maxShootDurationSeconds |-> IF maxDur # 0 THEN maxDur ELSE st.maxShootDurationSeconds,
      maxEventSeconds |-> IF maxEv # 0 THEN maxEv ELSE st.maxEventSeconds ]

----------------------------------------------------------------------------
(* Starfield: the frame loop *)

NoMouse == [present |-> FALSE, x |-> 0, y |-> 0, norm |-> FALSE]
InitialMouse == [present |-> TRUE, x |-> 0, y |-> 0, norm |-> FALSE]
PointerSamples == { <<3, 4>> }

\* requestAnimationFrame returns an id that no pending request has; an id whose
\* request has run or was cancelled is held nowhere in the program any more
FreshId(pend) == CHOOSE i \in 1 .. MaxIds : i \notin pend

\* const deltaTime = time - this.lastTime, after  if (!this.lastTime) this.lastTime = time
DeltaTime(time, lt) == time - (IF lt = 0 THEN time ELSE lt)

Loop == [animationId |-> animationId, isPaused |-> isPaused, pending |-> pending]

\* a pause that cancels the request and keeps its id
pause_keepsId(f) ==
    IF f.animationId # NoRequest
    THEN [ animationId |-> f.animationId,
           isPaused |-> TRUE,
           pending |-> f.pending \ {f.animationId} ]
    ELSE f

\* Starfield.pause()
pause(f) ==
    IF f.animationId # NoRequest
    THEN [ animationId |-> NoRequest,
           isPaused |-> TRUE,
           pending |-> f.pending \ {f.animationId} ]
    ELSE f

\* Starfield.animate(time): the body, entered with the host's pending set pend.
\* deltaTime = DeltaTime(time, this.lastTime) is computed and handed to
\* updateStars, which does not use it.
animate(time, pend) ==
    /\ animationId' = FreshId(pend)
    /\ pending' = pend \cup {FreshId(pend)}
    /\ lastTime' = time
    /\ \E out \in updateStars(stars, settings, Budget, time) :
            /\ stars' = out.stars
            /\ shootingStarsCount' = out.b.count
            /\ lastShootingStarTime' = out.b.last
            /\ nextShootingStarDelay' = out.b.delay
            /\ lastStart' = out.b.lastStart
            /\ startedTooEarly' = out.b.early

NoTick ==
    UNCHANGED <<stars, lastTime, shootingStarsCount, lastShootingStarTime,
                nextShootingStarDelay, lastStart, startedTooEarly>>

\* the host runs a pending frame request
FrameCallback ==
    /\ \E id \in pending : animate(now, pending \ {id})
    /\ UNCHANGED <<options, mouse, isPaused, now, settings, orphanedTweens>>

\* the host clock advances
AdvanceClock ==
    /\ now < MaxTicks * FrameMs
    /\ now' = now + FrameMs
    /\ NoTick
    /\ UNCHANGED <<options, mouse, animationId, isPaused, pending, settings, orphanedTweens>>

Pause ==
    /\ animationId' = pause(Loop).animationId
    /\ isPaused' = pause(Loop).isPaused
    /\ pending' = pause(Loop).pending
    /\ NoTick
    /\ UNCHANGED <<options, mouse, now, settings, orphanedTweens>>

\* Starfield.resume()
Resume ==
    /\ IF isPaused
       THEN /\ isPaused' = FALSE
            /\ animate(0, pending)    \* after this.lastTime = performance.now()
       ELSE /\ NoTick
            /\ UNCHANGED <<isPaused, animationId, pending>>
    /\ UNCHANGED <<options, mouse, now, settings, orphanedTweens>>

\* Starfield.dispose()
Dispose ==
    /\ animationId' = NoRequest
    /\ isPaused' = pause(Loop).isPaused
    /\ pending' = pause(Loop).pending
    /\ stars' = <<>>
    /\ mouse' = NoMouse
    /\ orphanedTweens' = (orphanedTweens \/ stars # <<>>)
    /\ UNCHANGED <<options, now, settings, lastTime, shootingStarsCount,
                   lastShootingStarTime, nextShootingStarDelay, lastStart, startedTooEarly>>

\* a redraw that requests a frame without cancelling the pending request
Redraw_noCancel ==
    IF animationId # NoRequest
    THEN animate(0, pending)
    ELSE /\ NoTick
         /\ UNCHANGED <<animationId, pending>>

\* a redraw that does not look at animationId
Redraw_unguarded == animate(0, pending \ {animationId})

\* the redraw at the end of setBackgroundOpacity and setConnectionOpacity
Redraw ==
    IF animationId # NoRequest
    THEN animate(0, pending \ {animationId})
    ELSE /\ NoTick
         /\ UNCHANGED <<animationId, pending>>

SetBackgroundOpacity ==
    /\ Redraw
    /\ UNCHANGED <<options, mouse, isPaused, now, settings, orphanedTweens>>

SetConnectionOpacity ==
    /\ Redraw
    /\ UNCHANGED <<options, mouse, isPaused, now, settings, orphanedTweens>>

\* Starfield.resize(): every star gets a fresh random offset from its origin;
\* the collection keeps its order
Resize ==
    /\ \E off \in [DOMAIN stars -> OffsetSamples] :
            stars' = [i \in DOMAIN stars |-> [stars[i] EXCEPT !.x = off[i]]]
    /\ UNCHANGED <<options, mouse, animationId, isPaused, lastTime, pending, now,
                   shootingStarsCount, lastShootingStarTime, nextShootingStarDelay,
                   settings, orphanedTweens, lastStart, startedTooEarly>>

\* handleMouseMove
PointerMove ==
    /\ \E p \in PointerSamples :
            mouse' = [present |-> TRUE, x |-> p[1], y |-> p[2], norm |-> TRUE]
    /\ NoTick
    /\ UNCHANGED <<options, animationId, isPaused, pending, now, settings, orphanedTweens>>

\* handleLeave
PointerLeave ==
    /\ mouse' = NoMouse
    /\ NoTick
    /\ UNCHANGED <<options, animationId, isPaused, pending, now, settings, orphanedTweens>>

----------------------------------------------------------------------------
(* Repopulation: a control sets one option and calls createStars().        *)
(* createStars begins with stars.forEach(star => star.dispose()); Star has *)
(* no dispose method, so on a non-empty collection the call throws a       *)
(* TypeError before anything is changed.                                   *)

Repopulate(o) ==
    /\ options' = o
    /\ IF stars # <<>>
       THEN UNCHANGED stars
       ELSE stars' \in createStars(o)
    /\ UNCHANGED <<mouse, animationId, isPaused, lastTime, pending, now, shootingStarsCount,
                   lastShootingStarTime, nextShootingStarDelay, settings,
                   orphanedTweens, lastStart, startedTooEarly>>

StarCountInput(maxCount) ==
    \E n \in 0 .. maxCount : Repopulate([options EXCEPT !.starCount = n])

EnableClustersToggle ==
    \E e \in BOOLEAN : Repopulate([options EXCEPT !.clustersEnabled = e])

ClusterCountInput ==
    \E c \in 0 .. MaxClusterCount : Repopulate([options EXCEPT !.clusterCount = c])

MaxStarsPerClusterInput ==
    \E m \in 0 .. MaxPerCluster : Repopulate([options EXCEPT !.maxStarsPerCluster = m])

----------------------------------------------------------------------------
(* Star statics *)

EnabledInputs == {"undefined", "true", "false"}
DurationInputs == {0}
EventInputs == {0}

UpdateShootingStarSettings ==
    /\ \E en \in EnabledInputs, ms \in 0 .. MaxSettingStars,
          md \in DurationInputs, me \in EventInputs :
            settings' = updateShootingStarSettings(settings, en, ms, md, me)
    /\ NoTick
    /\ UNCHANGED <<options, mouse, animationId, isPaused, pending, now, orphanedTweens>>

\* Star.resetShootingStarState()
ResetShootingStarState ==
    /\ shootingStarsCount' = 0
    /\ lastShootingStarTime' = 0
    /\ nextShootingStarDelay' = 0
    /\ UNCHANGED <<stars, options, mouse, animationId, isPaused, lastTime, pending, now,
                   settings, orphanedTweens, lastStart, startedTooEarly>>

----------------------------------------------------------------------------
(* Star: one particle with its blink, motion and draw state.  Lightness is *)
(* in percent, alpha in hundredths, size in tenths of a pixel and          *)
(* currentSize in hundredths of a pixel.                                   *)

LightnessSamples == {50}         \* Utils.randomInRange(50, 90)
ColourSamples == {0, 70}         \* options.starColor.lightness; 0: no starColor
AlphaSamples == {80}             \* Utils.randomInRange(0.6, 1)
SizeSamples == {5}               \* Utils.randomInRange(0.5, 3)
SinSamples == {1}                \* Math.sin(time * 0.02)

\* new Star(x, y, options) followed by the starColor override of createStars
NewParticle(selected, ellipseOption, l, colour, a, size, away) ==
    [ selectedForEllipse |-> selected,
      ellipseEnabled |-> ellipseOption /\ selected,
      moveStarsAwayFromMouse |-> away,
      lightness |-> IF colour # 0 THEN colour ELSE l,
      originalLightness |-> l,
      alpha |-> a,
      originalAlpha |-> a,
      isBlinking |-> FALSE,
      blinkStartTime |-> 0,
      blinkDuration |-> 0,
      isShooting |-> FALSE,
      shootStartTime |-> 0,
      shootDuration |-> 0,
      size |-> size,
      currentSize |-> size * 10,
      x |-> Fin(0),
      y |-> Fin(0),
      preBlink |-> [lightness |-> 0, alpha |-> 0],   \* history: values when the blink started
      blinkCompleted |-> FALSE,     \* history: the last update completed a blink
      motion |-> "none",            \* history: the position path of the last update
      sized |-> FALSE,              \* history: the last update moved the size multiplier
      repelled |-> FALSE,           \* history: the last update ran the pointer block
      canvasCalls |-> 0,            \* history: canvas drawing calls of the last draw
      warned |-> FALSE,             \* history: the last draw logged and skipped
      raised |-> FALSE ]            \* history: the last draw threw

DefaultParticle == NewParticle(FALSE, FALSE, 50, 0, 80, 5, FALSE)

\* Math.sin(blinkProgress * Math.PI) * 0.8 + 1.2 in tenths, the sine sampled as
\* 0 at whole progress and as 1 elsewhere
BlinkIntensity(p, d) == IF p % d = 0 THEN 12 ELSE 20

\* Star.updateBlinkingEffect(time); starts is the draw Math.random() < 0.00015
updateBlinkingEffect(s, time, starts, kb) ==
    LET a == IF ~s.isBlinking /\ starts
             THEN [s EXCEPT !.isBlinking = TRUE,
                            !.blinkStartTime = time,
                            !.blinkDuration = BaseBlinkMs + RandomTimes(kb, BlinkSpanMs),
                            !.preBlink = [lightness |-> s.lightness, alpha |-> s.alpha]]
             ELSE s
    IN IF a.isBlinking
       THEN IF time - a.blinkStartTime >= a.blinkDuration
            THEN [a EXCEPT !.isBlinking = FALSE,
                           !.lightness = a.originalLightness,
                           !.alpha = a.originalAlpha,
                           !.blinkCompleted = TRUE]
            ELSE LET i == BlinkIntensity(time - a.blinkStartTime, a.blinkDuration)
                 IN [a EXCEPT !.lightness = (a.originalLightness * i) \div 10,
                              !.alpha = (a.originalAlpha * (i * 5 + 80)) \div 100]
       ELSE a

\* Math.pow(shootProgress, 0.5) is NaN for a negative shootProgress
EasedProgressIsNaN(s, time) == time - s.shootStartTime < 0

\* the shooting branch of update that animates and returns
ShootAnimate(s, time, k) ==
    [s EXCEPT !.x = IF EasedProgressIsNaN(s, time) THEN NaN ELSE Fin(0),
              !.y = IF EasedProgressIsNaN(s, time) THEN NaN ELSE Fin(0),
              !.currentSize = s.size * (18 + 5 * k),
              !.motion = "shoot"]

\* the rest of update: size multiplier, elliptical or floating position, pointer block
Motion(s, m) ==
    [s EXCEPT !.x = Fin(0),
              !.y = Fin(0),
              !.motion = IF s.ellipseEnabled THEN "ellipse" ELSE "float",
              !.sized = TRUE,
              !.repelled = m.present /\ s.moveStarsAwayFromMouse]

\* Star.update(time, mouse, maxDistance), whole: blink, shooting part, motion
StarUpdate(s0, st, b, time, m, starts, kb, k) ==
    LET s == updateBlinkingEffect(
                 [s0 EXCEPT !.blinkCompleted = FALSE, !.motion = "none",
                            !.sized = FALSE, !.repelled = FALSE],
                 time, starts, kb)
    IN IF st.enabled /\ s.isShooting /\ ~ShootComplete(s, time)
       THEN { [star |-> ShootAnimate(s, time, k), b |-> b] }
       ELSE IF ~(st.enabled /\ s.isShooting) /\ MayStart(s, st, b, time)
            THEN update(s, st, b, time)
            ELSE { [star |-> Motion(o.star, m), b |-> o.b] : o \in update(s, st, b, time) }

\* a draw without the Number.isFinite validation
draw_unvalidated(s, throws) ==
    [s EXCEPT !.canvasCalls = IF throws THEN 0 ELSE DrawFills,
              !.warned = FALSE,
              !.raised = FALSE]

\* Star.draw(ctx); throws is whether a canvas call inside the try block throws
draw(s, throws) ==
    IF s.x.kind # "finite" \/ s.y.kind # "finite"
    THEN [s EXCEPT !.canvasCalls = 0, !.warned = TRUE, !.raised = FALSE]
    ELSE [s EXCEPT !.canvasCalls = IF throws THEN 0 ELSE DrawFills,
                   !.warned = FALSE,
                   !.raised = FALSE]

----------------------------------------------------------------------------
(* Starfield: canvas size, background fill, pointer connections and the    *)
(* order of the stages of a frame.  Opacity is in tenths, trailFadeSpeed   *)
(* in hundredths, the fill alpha in thousandths, devicePixelRatio in       *)
(* DprDen-ths.  A star of the collection is at (x, 0).                     *)

OpacitySamples == {0, 5, 10}
TrailFadeSamples == {5, 100}         \* 0.05 is the default
DistanceSamples == {0, 5, 6}         \* options.connectionDistance
\* <<window.innerWidth, window.innerHeight, window.devicePixelRatio>>
WindowSamples == { <<3, 3, DprDen>>, <<3, 7, DprDen + 1>>, <<7, 3, 2 * DprDen>> }

\* scaleX = xn / xd and scaleY = yn / yd; no star was rescaled yet
NoScale == [xn |-> 1, xd |-> 1, yn |-> 1, yd |-> 1]

DefaultField ==
    [ ellipseEnabled |-> FALSE,
      hasBackground |-> TRUE,
      backgroundOpacity |-> 10,
      trailFadeSpeed |-> 5,
      connectionDistance |-> DefaultConnectionDistance,
      mouseConnectionsEnabled |-> TRUE,
      innerWidth |-> 3,
      innerHeight |-> 3,
      devicePixelRatio |-> DprDen,
      cssWidth |-> 3,
      cssHeight |-> 3,
      canvasWidth |-> 3,
      canvasHeight |-> 3,
      fillAlpha |-> 50,
      counted |-> {},               \* history: stars counted by updateStars in the last frame
      lines |-> {},                 \* history: stars that got a line in the last frame
      visibleConnections |-> 0,
      stages |-> <<>>,              \* history: the stages of the last frame, in order
      requestedOpacity |-> 10,      \* history: the opacity last asked for
      originScale |-> NoScale ]     \* history: the factors the last resize applied to origins

\* a resize that sizes the backing store in CSS pixels
resize_unscaled(f, w, h, dpr) ==
    [f EXCEPT !.innerWidth = w,
              !.innerHeight = h,
              !.devicePixelRatio = dpr,
              !.cssWidth = w,
              !.cssHeight = h,
              !.canvasWidth = w,
              !.canvasHeight = h]

\* Starfield.resize() in a window of w x h CSS pixels and the given devicePixelRatio
resize(f, w, h, dpr) ==
    [f EXCEPT !.innerWidth = w,
              !.innerHeight = h,
              !.devicePixelRatio = dpr,
              !.cssWidth = w,
              !.cssHeight = h,
              !.canvasWidth = (w * dpr) \div DprDen,
              !.canvasHeight = (h * dpr) \div DprDen]

\* the second half of Starfield.resize(), on a collection of n stars:
\* scaleX = width / this.canvas.width, scaleY = height / this.canvas.height
rescaleOrigins(f, n) ==
    IF n > 0
    THEN [f EXCEPT !.originScale = [xn |-> f.innerWidth, xd |-> f.canvasWidth,
                                    yn |-> f.innerHeight, yd |-> f.canvasHeight]]
    ELSE f

\* Starfield.setBackgroundOpacity(opacity), before its redraw
setBackgroundOpacity(f, o) ==
    IF ~f.hasBackground
    THEN [f EXCEPT !.hasBackground = TRUE, !.backgroundOpacity = 10, !.requestedOpacity = o]
    ELSE [f EXCEPT !.backgroundOpacity = o, !.requestedOpacity = o]

\* const opacity = (this.options.background.opacity || 1) * trailFadeSpeed
FillAlpha(f) ==
    (IF f.backgroundOpacity # 0 THEN f.backgroundOpacity ELSE 10) * f.trailFadeSpeed

\* Starfield.setConnectionDistance(distance) for an integer distance
setConnectionDistance(f, d) ==
    [f EXCEPT !.connectionDistance = IF d > 0 THEN d ELSE 0]

\* a comparison that also takes the star at exactly the distance d
Near_inclusive(s, m, d) ==
    /\ d > 0
    /\ (s.x - m.x) * (s.x - m.x) + m.y * m.y <= d * d

\* Utils.distance(star.x, star.y, mouse.x, mouse.y) < d, by the squares
Near(s, m, d) ==
    /\ d > 0
    /\ (s.x - m.x) * (s.x - m.x) + m.y * m.y < d * d

\* the stars updateStars counts in visibleConnections
Counted(ss, m, f) ==
    IF m.present
    THEN {i \in DOMAIN ss : Near(ss[i], m, f.connectionDistance)}
    ELSE {}

\* drawConnections gets as far as resetting visibleConnections
ConnectionsDrawn(m, f) ==
    f.mouseConnectionsEnabled /\ f.connectionDistance > 0 /\ m.present

\* the stars drawConnections draws a line for
Lines(ss, m, f) ==
    IF ConnectionsDrawn(m, f)
    THEN {i \in DOMAIN ss :
            Near(ss[i], m, IF f.connectionDistance # 0 THEN f.connectionDistance
                           ELSE DefaultConnectionDistance)}
    ELSE {}

Stage(name, i) == [stage |-> name, star |-> i]

\* a frame that draws each star before the stars are updated
FrameStages_drawFirst(n, connections) ==
    <<Stage("request", 0), Stage("fill", 0), Stage("parallax", 0)>>
    \o [i \in 1 .. n |-> Stage("draw", i)]
    \o [i \in 1 .. n |-> Stage("update", i)]
    \o (IF connections THEN <<Stage("connections", 0)>> ELSE <<>>)

\* the calls of one run of the animate body, in order; n is the number of stars
FrameStages(n, connections) ==
    <<Stage("request", 0), Stage("fill", 0), Stage("parallax", 0)>>
    \o [i \in 1 .. n |-> Stage("update", i)]
    \o (IF connections THEN <<Stage("connections", 0)>> ELSE <<>>)
    \o [i \in 1 .. n |-> Stage("draw", i)]

\* what one run of the animate body leaves in the field
Frame(f, ss, m) ==
    [f EXCEPT !.fillAlpha = FillAlpha(f),
              !.counted = Counted(ss, m, f),
              !.lines = Lines(ss, m, f),
              !.visibleConnections =
                    IF ConnectionsDrawn(m, f)
                    THEN Cardinality(Lines(ss, m, f))
                    ELSE Cardinality(Counted(ss, m, f)),
              !.stages = FrameStages(Len(ss), f.mouseConnectionsEnabled)]

----------------------------------------------------------------------------
(* Starfield: the numeric mutators.  trailFadeSpeed and the parallax        *)
(* intensity are in hundredths; a field absent from an argument object is   *)
(* "undefined".  ellipseSpeed is the speed of one star of the collection,   *)
(* in units of its own.                                                     *)

NumberSamples == { Fin(-1), Fin(0), Fin(50), Fin(200), NaN, Infinity }
SpeedSamples == {0, 1, 2}            \* the multiplier of setStarMovementSpeed
EllipseSpeedSamples == {0, 3}        \* star.ellipseSpeed at construction

\* the arguments of setParallaxConfig: the objects src/js/main.js passes
ConfigSamples ==
    { [enabled |-> e, intensity |-> Undefined, maxOffset |-> Undefined]
            : e \in {"true", "false"} }
    \cup { [enabled |-> "undefined", intensity |-> v, maxOffset |-> Undefined]
            : v \in NumberSamples }
    \cup { [enabled |-> "undefined", intensity |-> Undefined, maxOffset |-> v]
            : v \in NumberSamples }
    \cup { [enabled |-> "true", intensity |-> Fin(50), maxOffset |-> Fin(50)] }

NoConfig == [enabled |-> "undefined", intensity |-> Undefined, maxOffset |-> Undefined]

DefaultKnobs ==
    [ trailFadeSpeed |-> Fin(DefaultTrailFade),
      connectionDistance |-> Fin(DefaultConnectionDistance),
      parallaxConfig |-> [ enabled |-> TRUE,
                           intensity |-> Fin(DefaultIntensity),
                           maxOffset |-> Fin(DefaultMaxOffset) ],
      lastConfig |-> NoConfig,      \* history: the last argument of setParallaxConfig
      ellipseSpeed |-> 0,
      baseEllipseSpeed |-> 0,       \* 0: undefined
      firstEllipseSpeed |-> 0,      \* history: ellipseSpeed before the first setStarMovementSpeed
      lastSpeed |-> -1 ]            \* history: the last multiplier, -1 before the first call

\* Math.max(0.01, Math.min(speed, 1.0))
clampTrailFadeSpeed(v) == JsMax(MinTrailFade, JsMin(v, MaxTrailFade))

\* Math.max(0, distance)
clampConnectionDistance(v) == JsMax(0, v)

\* Starfield.setParallaxConfig(config)
setParallaxConfig(c, config) ==
    [ enabled |-> IF config.enabled # "undefined" THEN config.enabled = "true" ELSE c.enabled,
      intensity |-> IF config.intensity # Undefined
                    THEN JsMax(0, JsMin(config.intensity, MaxIntensity))
                    ELSE c.intensity,
      maxOffset |-> IF config.maxOffset # Undefined
                    THEN JsMax(0, config.maxOffset)
                    ELSE c.maxOffset ]

\* Starfield.setStarMovementSpeed(speed), body of the forEach
setStarMovementSpeed(k, speed) ==
    IF k.ellipseSpeed # 0
    THEN LET base == IF k.baseEllipseSpeed = 0 THEN k.ellipseSpeed ELSE k.baseEllipseSpeed
         IN [k EXCEPT !.baseEllipseSpeed = base,
                      !.ellipseSpeed = base * speed]
    ELSE k

----------------------------------------------------------------------------
(* The state after  new Starfield(canvas, options):  resize, createStars,  *)
(* setupEventListeners and the first animate() with time = 0.              *)

InitCore(maxCount) ==
    /\ options \in OptionSpace(maxCount)
    /\ stars \in createStars(options)
    /\ mouse = InitialMouse
    /\ animationId = 1
    /\ pending = {1}
    /\ isPaused = FALSE
    /\ lastTime = 0
    /\ now = FrameMs
    /\ shootingStarsCount = 0
    /\ lastShootingStarTime = 0
    /\ nextShootingStarDelay = 0
    /\ settings = DefaultSettings
    /\ orphanedTweens = FALSE
    /\ lastStart = NoStart
    /\ startedTooEarly = FALSE
    /\ op = "init"

InitWith(maxCount) ==
    /\ InitCore(maxCount)
    /\ particle = DefaultParticle
    /\ field = DefaultField
    /\ knobs = DefaultKnobs

\* a field constructed with at least one star (the first Star constructed
\* initialises the statics)
Init ==
    /\ InitWith(MaxStarCount)
    /\ stars # <<>>
    /\ options.clusterCount = MaxClusterCount
    /\ options.maxStarsPerCluster = MaxPerCluster

\* an operation, recorded in op / not recorded
Call(A, name) == A /\ op' = name /\ UNCHANGED <<particle, field, knobs>>
Quiet(A) == A /\ UNCHANGED <<op, particle, field, knobs>>

PauseName == IF animationId # NoRequest THEN "pause" ELSE "pauseAgain"
ResumeName == IF isPaused THEN "resume" ELSE "resumeNotPaused"
RedrawName(name) == IF animationId # NoRequest THEN name ELSE "noRedraw"
CreateName == IF stars # <<>> THEN "createStarsThrew" ELSE "createStars"

\* the operations that ran the animate() body
Ticked == op \in {"init", "frame", "resume", "setBackgroundOpacity", "setConnectionOpacity"}

\* the frame loop and its life cycle; shooting stays at its default (disabled)
Next ==
    \/ Call(FrameCallback, "frame")
    \/ Call(AdvanceClock, "clock")
    \/ Call(Pause, PauseName)
    \/ Call(Resume, ResumeName)
    \/ Call(Dispose, "dispose")
    \/ Call(SetBackgroundOpacity, RedrawName("setBackgroundOpacity"))
    \/ Call(SetConnectionOpacity, RedrawName("setConnectionOpacity"))
    \/ Call(PointerMove, "pointerMove")
    \/ Call(PointerLeave, "pointerLeave")
    \/ Call(Resize, "resize")
    \/ Call(StarCountInput(MaxStarCount), CreateName)

Spec == Init /\ [][Next]_vars

\* the shooting budget under frames, redraws, settings changes and repopulation
NextShoot ==
    \/ Quiet(FrameCallback)
    \/ Quiet(AdvanceClock)
    \/ Quiet(SetBackgroundOpacity)
    \/ Quiet(Resume)
    \/ Quiet(Dispose)
    \/ Quiet(StarCountInput(MaxStarCount))
    \/ Quiet(UpdateShootingStarSettings)
    \/ Quiet(ResetShootingStarState)

InitShoot ==
    /\ Init
    /\ options.clustersEnabled

SpecShoot == InitShoot /\ [][NextShoot]_vars

\* population only, with larger star counts
InitPop == InitWith(PopMaxStarCount)

NextPop ==
    \/ Call(StarCountInput(PopMaxStarCount), CreateName)
    \/ Call(EnableClustersToggle, CreateName)
    \/ Call(ClusterCountInput, CreateName)
    \/ Call(MaxStarsPerClusterInput, CreateName)
    \/ Call(Dispose, "dispose")

SpecPop == InitPop /\ [][NextPop]_vars

----------------------------------------------------------------------------
(* One particle under frames, direct animate() calls, the shooting switch, *)
(* the elliptical switch and draw.                                         *)

\* star.update(time, this.mouse, connectionDistance) on the particle
StarTick(time) ==
    /\ \E starts \in BOOLEAN, kb \in RandomSamples, k \in SinSamples :
         \E o \in StarUpdate(particle, settings, Budget, time, mouse, starts, kb, k) :
            /\ particle' = o.star
            /\ shootingStarsCount' = o.b.count
            /\ lastShootingStarTime' = o.b.last
            /\ nextShootingStarDelay' = o.b.delay
            /\ lastStart' = o.b.lastStart
            /\ startedTooEarly' = o.b.early
    /\ UNCHANGED <<stars, options, mouse, animationId, isPaused, lastTime, pending, now,
                   settings, orphanedTweens, field, knobs>>

\* the update of a scheduled frame, whose timestamp is the clock
StarFrame == StarTick(now)

\* the update of a direct animate() call (resume, setBackgroundOpacity,
\* setConnectionOpacity), whose timestamp is the default 0
StarRedraw == StarTick(0)

\* star.draw(this.ctx)
StarDraw ==
    /\ \E throws \in BOOLEAN : particle' = draw(particle, throws)
    /\ UNCHANGED <<stars, options, mouse, animationId, isPaused, lastTime, pending, now,
                   shootingStarsCount, lastShootingStarTime, nextShootingStarDelay,
                   settings, orphanedTweens, lastStart, startedTooEarly, field, knobs>>

\* a setEllipseMovement that hands the switch to every particle
setEllipseMovement_everyParticle(s, enabled) ==
    [s EXCEPT !.ellipseEnabled = enabled]

\* the body of the forEach of Starfield.setEllipseMovement(enabled)
setEllipseMovement(s, enabled) ==
    [s EXCEPT !.ellipseEnabled = enabled /\ s.selectedForEllipse]

SetEllipseMovement ==
    /\ \E e \in BOOLEAN :
            /\ field' = [field EXCEPT !.ellipseEnabled = e]
            /\ particle' = setEllipseMovement(particle, e)
    /\ op' = "setEllipseMovement"
    /\ UNCHANGED <<stars, options, mouse, animationId, isPaused, lastTime, pending, now,
                   shootingStarsCount, lastShootingStarTime, nextShootingStarDelay,
                   settings, orphanedTweens, lastStart, startedTooEarly, knobs>>

\* Star.updateShootingStarSettings({ enabled })
SetShootingEnabled ==
    /\ \E en \in {"true", "false"} :
            settings' = updateShootingStarSettings(settings, en, 0, 0, 0)
    /\ NoTick
    /\ UNCHANGED <<options, mouse, animationId, isPaused, pending, now, orphanedTweens>>

InitStar ==
    /\ InitCore(0)
    /\ knobs = DefaultKnobs
    /\ ~options.clustersEnabled
    /\ options.clusterCount = 0
    /\ options.maxStarsPerCluster = 0
    /\ \E e \in {FALSE} :
         /\ field = [DefaultField EXCEPT !.ellipseEnabled = e]
         /\ \E sel \in BOOLEAN, l \in LightnessSamples, c \in ColourSamples,
               a \in AlphaSamples, z \in SizeSamples, away \in {TRUE} :
                particle = NewParticle(sel, e, l, c, a, z, away)

NextStar ==
    \/ Quiet(AdvanceClock)
    \/ StarFrame /\ UNCHANGED op
    \/ StarRedraw /\ UNCHANGED op
    \/ StarDraw /\ UNCHANGED op
    \/ SetEllipseMovement
    \/ Quiet(SetShootingEnabled)

SpecStar == InitStar /\ [][NextStar]_vars

----------------------------------------------------------------------------
(* The field: canvas size, background fill and pointer connections, with   *)
(* the loop running and shooting at its default (disabled).                *)

FieldFrame ==
    /\ FrameCallback
    /\ field' = Frame(field, stars', mouse)
    /\ op' = "frame"
    /\ UNCHANGED <<particle, knobs>>

\* Starfield.setBackgroundOpacity(opacity)
FieldSetBackgroundOpacity ==
    /\ SetBackgroundOpacity
    /\ \E o \in OpacitySamples :
            field' = IF animationId # NoRequest
                     THEN Frame(setBackgroundOpacity(field, o), stars', mouse)
                     ELSE setBackgroundOpacity(field, o)
    /\ op' = RedrawName("setBackgroundOpacity")
    /\ UNCHANGED <<particle, knobs>>

\* the window changes and the resize listener calls Starfield.resize()
FieldResize ==
    /\ Resize
    /\ \E w \in WindowSamples :
            field' = rescaleOrigins(resize(field, w[1], w[2], w[3]), Len(stars))
    /\ op' = "resize"
    /\ UNCHANGED <<particle, knobs>>

SetConnectionDistance ==
    /\ \E d \in DistanceSamples \cup {-1} :
            field' = setConnectionDistance(field, d)
    /\ op' = "setConnectionDistance"
    /\ NoTick
    /\ UNCHANGED <<options, mouse, animationId, isPaused, pending, now, settings,
                   orphanedTweens, particle, knobs>>

\* the connections control writes starfield.mouseConnectionsEnabled
SetMouseConnections ==
    /\ \E e \in BOOLEAN :
            field' = [field EXCEPT !.mouseConnectionsEnabled = e]
    /\ op' = "setMouseConnections"
    /\ NoTick
    /\ UNCHANGED <<options, mouse, animationId, isPaused, pending, now, settings,
                   orphanedTweens, particle, knobs>>

InitField ==
    /\ InitCore(MaxStarCount)
    /\ knobs = DefaultKnobs
    /\ options.starCount = MaxStarCount
    /\ ~options.clustersEnabled
    /\ options.clusterCount = MaxClusterCount
    /\ options.maxStarsPerCluster = MaxPerCluster
    /\ particle = DefaultParticle
    /\ \E o \in OpacitySamples, t \in TrailFadeSamples, d \in DistanceSamples,
          w \in WindowSamples :
            field = Frame(resize([DefaultField EXCEPT !.backgroundOpacity = o,
                                                      !.requestedOpacity = o,
                                                      !.trailFadeSpeed = t,
                                                      !.connectionDistance = d],
                                 w[1], w[2], w[3]),
                          stars, mouse)

NextField ==
    \/ FieldFrame
    \/ FieldSetBackgroundOpacity
    \/ FieldResize
    \/ SetConnectionDistance
    \/ SetMouseConnections
    \/ Call(PointerMove, "pointerMove")
    \/ Call(PointerLeave, "pointerLeave")

SpecField == InitField /\ [][NextField]_vars

----------------------------------------------------------------------------
(* One particle while the host keeps delivering frames: the clock advances *)
(* to its horizon and the frame callback keeps running.                    *)

LiveClock == Quiet(AdvanceClock)
LiveFrame == StarFrame /\ UNCHANGED op
LiveRedraw == StarRedraw /\ UNCHANGED op
LiveSettings == Quiet(SetShootingEnabled)

NextLive ==
    \/ LiveClock
    \/ LiveFrame
    \/ LiveRedraw
    \/ LiveSettings

\* the last timestamp the clock of the model delivers
Horizon == MaxTicks * FrameMs

SpecLive ==
    /\ InitStar
    /\ [][NextLive]_vars
    /\ WF_vars(LiveClock)
    /\ WF_vars(LiveFrame)

----------------------------------------------------------------------------
(* The draws of startShooting under every configured duration and delay    *)
(* bound, in seconds.                                                      *)

DurationSamples == {1, 3}            \* settings.maxShootDurationSeconds
EventSamples == {1, 6}               \* settings.maxEventSeconds

\* starfield.updateShootingStarSettings({enabled: true, maxShootDurationSeconds, maxEventSeconds})
ConfigureShooting ==
    /\ \E md \in DurationSamples, me \in EventSamples :
            settings' = updateShootingStarSettings(settings, "true", 0, md, me)
    /\ NoTick
    /\ UNCHANGED <<options, mouse, animationId, isPaused, pending, now, orphanedTweens>>

InitStart ==
    /\ Init
    /\ ~options.clustersEnabled

NextStart ==
    \/ Quiet(FrameCallback)
    \/ Quiet(AdvanceClock)
    \/ Quiet(ConfigureShooting)

SpecStart == InitStart /\ [][NextStart]_vars

----------------------------------------------------------------------------
(* The numeric mutators, called in any order with any number.              *)

OnlyKnobs ==
    UNCHANGED <<stars, options, mouse, animationId, isPaused, lastTime, pending, now,
                shootingStarsCount, lastShootingStarTime, nextShootingStarDelay,
                settings, orphanedTweens, lastStart, startedTooEarly, op, particle, field>>

SetTrailFadeSpeed ==
    /\ \E v \in NumberSamples :
            knobs' = [knobs EXCEPT !.trailFadeSpeed = clampTrailFadeSpeed(v)]
    /\ OnlyKnobs

SetConnectionDistanceTo ==
    /\ \E v \in NumberSamples :
            knobs' = [knobs EXCEPT !.connectionDistance = clampConnectionDistance(v)]
    /\ OnlyKnobs

SetParallaxConfig ==
    /\ \E config \in ConfigSamples :
            knobs' = [knobs EXCEPT !.parallaxConfig = setParallaxConfig(@, config),
                                   !.lastConfig = config]
    /\ OnlyKnobs

SetStarMovementSpeed ==
    /\ \E speed \in SpeedSamples :
            knobs' = [setStarMovementSpeed(knobs, speed)
                        EXCEPT !.lastSpeed = speed,
                               !.firstEllipseSpeed = IF knobs.lastSpeed = -1
                                                     THEN knobs.ellipseSpeed
                                                     ELSE knobs.firstEllipseSpeed]
    /\ OnlyKnobs

InitKnobs ==
    /\ InitCore(0)
    /\ ~options.clustersEnabled
    /\ options.clusterCount = 0
    /\ options.maxStarsPerCluster = 0
    /\ particle = DefaultParticle
    /\ field = DefaultField
    /\ \E e \in EllipseSpeedSamples : knobs = [DefaultKnobs EXCEPT !.ellipseSpeed = e]

NextKnobs ==
    \/ SetTrailFadeSpeed
    \/ SetConnectionDistanceTo
    \/ SetParallaxConfig
    \/ SetStarMovementSpeed

SpecKnobs == InitKnobs /\ [][NextKnobs]_vars

----------------------------------------------------------------------------
(* Properties *)

\* C1: in every reachable state Star.shootingStarsCount is at most the
\* configured Star.settings.maxStarsAtOnce, also after updateShootingStarSettings
\* has lowered the maximum and after resetShootingStarState.
C1_CountWithinMax == shootingStarsCount <= settings.maxStarsAtOnce

\* C2: any two consecutive shoot-event starts at frame times t1 <= t2 are at
\* least the delay nextShootingStarDelay drawn at t1 apart, also within one
\* frame and in a frame whose timestamp is 0.
C2_StartsRespectDelay == ~startedTooEarly

\* C3: in every reachable state Star.shootingStarsCount is the number of
\* particles of the collection whose isShooting flag is set (so it is never
\* negative), also across createStars, dispose, resetShootingStarState and
\* changes of the enabled flag.
C3_CountIsShootingParticles ==
    shootingStarsCount = Cardinality({i \in DOMAIN stars : stars[i].isShooting})

\* C4: pause is idempotent.  From every reachable state pause(pause(f)) =
\* pause(f), and after pause animationId is null, the paused flag is set and
\* no frame request is pending; a pause called right after a pause changes
\* nothing and requests no frame.
C4_PauseIdempotent ==
    /\ [](LET once == pause(Loop)
          IN /\ pause(once) = once
             /\ once.animationId = NoRequest
             /\ once.isPaused
             /\ once.pending = {})
    /\ [][(op \in {"pause", "pauseAgain"} /\ op' = "pauseAgain")
            => UNCHANGED <<stars, options, mouse, animationId, isPaused, lastTime,
                           pending, now, orphanedTweens>>]_vars

\* pause was called on a field whose loop was already stopped
C4_Witness ==
    /\ op = "pauseAgain"
    /\ isPaused
    /\ animationId = NoRequest
    /\ pending = {}
    /\ stars # <<>>

\* C5: after pause and until the next resume no frame tick runs and no frame
\* request is pending, whatever else is called in between
\* (setBackgroundOpacity, setConnectionOpacity, resize, createStars, pointer
\* events, dispose).
C5_PausedNoTick ==
    /\ [](isPaused => (animationId = NoRequest /\ pending = {}))
    /\ [][(isPaused /\ op' # "resume")
            => (isPaused' /\ ~Ticked' /\ lastTime' = lastTime /\ pending' = {})]_vars

\* setBackgroundOpacity or setConnectionOpacity was called on a paused field
C5_Witness ==
    /\ isPaused
    /\ op = "noRedraw"
    /\ stars # <<>>
    /\ pending = {}

\* C6: after pause and then resume at time T the last-tick timestamp is T, so
\* that the delta time a frame at t >= T computes from it is not negative.
C6_ResumeKeepsResumeTime ==
    op = "resume" =>
        /\ lastTime = now
        /\ \A k \in 0 .. MaxTicks : DeltaTime(now + k * FrameMs, lastTime) >= 0
        /\ DeltaTime(0, now) >= 0     \* the tick resume itself runs

\* C7: after dispose no frame request is pending (animationId is null), the
\* collection is empty, the pointer state is null and the tweens of every
\* particle that was in the collection have been released.
C7_DisposeReleasesAll ==
    op = "dispose" =>
        /\ animationId = NoRequest
        /\ pending = {}
        /\ stars = <<>>
        /\ ~mouse.present
        /\ ~orphanedTweens

\* C8: after createStars has run to its end the collection holds exactly
\* options.starCount particles, for every starCount >= 0, clustersEnabled,
\* clusterCount >= 0 and maxStarsPerCluster >= 0.
C8_ExactlyStarCount ==
    op \in {"init", "createStars"} => Len(stars) = options.starCount

\* C9: with clustering enabled createStars creates
\* clusterCount * min(floor(floor(0.2 * starCount) / clusterCount), maxStarsPerCluster)
\* clustered particles (none when clusterCount is 0), which is at most
\* clusterCount * maxStarsPerCluster and at most starCount; with clustersEnabled
\* false it creates no clustered particle.
C9_ClusteredCount ==
    op \in {"init", "createStars"} =>
        LET k == Cardinality({i \in DOMAIN stars : stars[i].clustered})
            share == (options.starCount * 2) \div 10
            cc == options.clusterCount
            m == options.maxStarsPerCluster
        IN /\ ~options.clustersEnabled => k = 0
           /\ options.clustersEnabled =>
                /\ k <= cc * m
                /\ k <= options.starCount
                /\ cc = 0 => k = 0
                /\ cc > 0 => k = cc * (IF share \div cc < m THEN share \div cc ELSE m)

\* createStars ran with the cap maxStarsPerCluster below the per-cluster share
C9_Witness ==
    /\ op = "createStars"
    /\ options.clustersEnabled
    /\ options.clusterCount = 1
    /\ options.maxStarsPerCluster = 1
    /\ options.starCount = PopMaxStarCount
    /\ Cardinality({i \in DOMAIN stars : stars[i].clustered}) = 1
    /\ Len(stars) = PopMaxStarCount

\* C10: the collection is sorted ascending by zIndex in every state, and no
\* operation other than a repopulation (frame ticks, redraws, resize, pointer
\* events, pause, resume) reorders it or changes a particle's zIndex.
C10_SortedByDepth ==
    /\ [](\A i, j \in DOMAIN stars : i < j => stars[i].zIndex <= stars[j].zIndex)
    /\ [][(stars # <<>> /\ stars' # <<>>)
            => /\ Len(stars') = Len(stars)
               /\ \A i \in DOMAIN stars : stars'[i].zIndex = stars[i].zIndex]_vars

\* a collection repopulated after a dispose, of two depths, and then resized
C10_Witness ==
    /\ op = "resize"
    /\ orphanedTweens
    /\ Len(stars) = 2
    /\ stars[1].zIndex < stars[2].zIndex
    /\ stars[1].x # stars[2].x

\* C11: for every particle ellipseEnabled implies _selectedForEllipse in every
\* state, _selectedForEllipse never changes after construction, and after
\* setEllipseMovement(e) the particle's ellipseEnabled is (e and
\* _selectedForEllipse).
C11_EllipseOnlyIfSelected ==
    /\ [](particle.ellipseEnabled => particle.selectedForEllipse)
    /\ [](op = "setEllipseMovement"
            => particle.ellipseEnabled
                 = (field.ellipseEnabled /\ particle.selectedForEllipse))
    /\ [][particle'.selectedForEllipse = particle.selectedForEllipse]_vars

\* the switch is on, the particle was not selected, and an update moved it by
\* the floating path
C11_Witness ==
    /\ op = "setEllipseMovement"
    /\ field.ellipseEnabled
    /\ ~particle.selectedForEllipse
    /\ ~particle.ellipseEnabled
    /\ particle.motion = "float"

\* C12: when a blink completes the particle's lightness and alpha are the
\* values they had right before that blink started, also when createStars
\* overrode the lightness with options.starColor.lightness.
C12_BlinkRestores ==
    particle.blinkCompleted =>
        /\ particle.lightness = particle.preBlink.lightness
        /\ particle.alpha = particle.preBlink.alpha

\* C16: after every update, with any timestamp the loop passes (0 for a direct
\* animate() call included), currentSize is greater than 0 and x and y are
\* finite.
C16_PositionFinite ==
    /\ particle.currentSize > 0
    /\ particle.x.kind = "finite"
    /\ particle.y.kind = "finite"

C20_ShootingOnly ==
    particle.isShooting =>
        /\ particle.motion \in {"shoot", "none"}
        /\ ~particle.sized
        /\ ~particle.repelled

\* C13: with a pointer present, after a frame the stars counted as connected
\* (and, with connections enabled, the stars that got a line) are exactly the
\* stars whose distance to the pointer is strictly less than
\* connectionDistance, and visibleConnections is their number.
C13_StrictThreshold ==
    (op \in {"init", "frame", "setBackgroundOpacity"} /\ mouse.present) =>
        LET d == field.connectionDistance
            within == {i \in DOMAIN stars :
                         (stars[i].x - mouse.x) * (stars[i].x - mouse.x)
                            + mouse.y * mouse.y < d * d}
        IN /\ field.counted = within
           /\ field.mouseConnectionsEnabled => field.lines = within
           /\ field.visibleConnections = Cardinality(within)

\* the pointer is at (3, 4) and connectionDistance is 5: the star at (0, 0), at
\* distance exactly 5, is not counted, the star at (1, 0) is and has its line
C13_Witness ==
    /\ op = "frame"
    /\ mouse.present /\ mouse.x = 3 /\ mouse.y = 4
    /\ field.connectionDistance = 5
    /\ field.mouseConnectionsEnabled
    /\ \E i, j \in DOMAIN stars :
            /\ stars[i].x = 0 /\ i \notin field.counted /\ i \notin field.lines
            /\ stars[j].x = 1 /\ j \in field.counted /\ j \in field.lines
    /\ field.visibleConnections = 1

\* C14: after setBackgroundOpacity(o), for every o in [0, 1] with 0 included,
\* the fill alpha of the frame it redraws is o * trailFadeSpeed.
C14_FillAlphaIsOpacity ==
    op = "setBackgroundOpacity" =>
        field.fillAlpha = field.requestedOpacity * field.trailFadeSpeed

\* C15: after every resize, canvas.width = floor(innerWidth * devicePixelRatio),
\* canvas.height = floor(innerHeight * devicePixelRatio), and the CSS size is
\* the viewport size.
C15_BackingStoreSize ==
    /\ field.canvasWidth * DprDen <= field.innerWidth * field.devicePixelRatio
    /\ field.innerWidth * field.devicePixelRatio < (field.canvasWidth + 1) * DprDen
    /\ field.canvasHeight * DprDen <= field.innerHeight * field.devicePixelRatio
    /\ field.innerHeight * field.devicePixelRatio < (field.canvasHeight + 1) * DprDen
    /\ field.cssWidth = field.innerWidth
    /\ field.cssHeight = field.innerHeight

\* a resize to 3 x 7 CSS pixels at devicePixelRatio 1.25: 3 x 8 in the backing store
C15_Witness ==
    /\ op = "resize"
    /\ field.devicePixelRatio = DprDen + 1
    /\ field.cssWidth = 3 /\ field.cssHeight = 7
    /\ field.canvasWidth = 3 /\ field.canvasHeight = 8

\* C19: in every frame the stages run in the order fill, parallax, update of
\* every star, connections, draw of every star; no star is drawn before every
\* star was updated; the next frame is requested exactly once.
C19_StageOrder ==
    op \in {"init", "frame", "setBackgroundOpacity"} =>
        LET s == field.stages
            rank(n) == CASE n = "request" -> 0
                         [] n = "fill" -> 1
                         [] n = "parallax" -> 2
                         [] n = "update" -> 3
                         [] n = "connections" -> 4
                         [] n = "draw" -> 5
        IN /\ Cardinality({i \in DOMAIN s : s[i].stage = "request"}) = 1
           /\ Cardinality({i \in DOMAIN s : s[i].stage = "fill"}) = 1
           /\ Cardinality({i \in DOMAIN s : s[i].stage = "parallax"}) = 1
           /\ \A i, j \in DOMAIN s : i < j => rank(s[i].stage) <= rank(s[j].stage)
           /\ \A k \in DOMAIN stars :
                  /\ Cardinality({i \in DOMAIN s : s[i] = Stage("update", k)}) = 1
                  /\ Cardinality({i \in DOMAIN s : s[i] = Stage("draw", k)}) = 1
           /\ \A i, j \in DOMAIN s :
                  (s[i].stage = "draw" /\ s[j].stage = "update") => j < i

\* a frame of two stars with the connections stage
C19_Witness ==
    /\ op = "frame"
    /\ Len(stars) = 2
    /\ Len(field.stages) = 8
    /\ field.stages[6].stage = "connections"

\* C18: createStars called on a field that already holds particles completes
\* without error (after releasing the tweens of the particles it replaces).
C18_RepopulateCompletes ==
    op \in {"createStars", "createStarsThrew"} => op = "createStars"

\* C21: a particle that is shooting never starts a blink, and an update of a
\* shooting particle leaves its lightness and alpha as they were (the blink
\* envelope does not modulate them during the shoot).
C21_ShootingSuppressesBlink ==
    [][particle.isShooting =>
         /\ particle'.isBlinking => particle.isBlinking
         /\ particle'.lightness = particle.lightness
         /\ particle'.alpha = particle.alpha]_vars

\* C22: after any sequence of setStarMovementSpeed calls, with multipliers
\* s >= 0 and 0 included, the star's ellipseSpeed is its speed before the
\* first call multiplied by the last multiplier.
C22_SpeedFromBase ==
    knobs.lastSpeed # -1 =>
        knobs.ellipseSpeed = knobs.firstEllipseSpeed * knobs.lastSpeed

\* C25: after the numeric mutators, called with any number, trailFadeSpeed is
\* in [0.01, 1.0], connectionDistance is >= 0, the parallax intensity is in
\* [0, 1] and maxOffset is >= 0; setParallaxConfig leaves the fields absent
\* from its argument as they were.
C25_StoredInRange ==
    /\ [](/\ knobs.trailFadeSpeed.kind = "finite"
          /\ knobs.trailFadeSpeed.val \in MinTrailFade .. MaxTrailFade
          /\ knobs.connectionDistance.kind # "NaN"
          /\ knobs.connectionDistance.kind = "finite" => knobs.connectionDistance.val >= 0
          /\ knobs.parallaxConfig.intensity.kind = "finite"
          /\ knobs.parallaxConfig.intensity.val \in 0 .. MaxIntensity
          /\ knobs.parallaxConfig.maxOffset.kind # "NaN"
          /\ knobs.parallaxConfig.maxOffset.kind = "finite"
                => knobs.parallaxConfig.maxOffset.val >= 0)
    /\ [][/\ knobs'.lastConfig.enabled = "undefined"
                => knobs'.parallaxConfig.enabled = knobs.parallaxConfig.enabled
          /\ knobs'.lastConfig.intensity = Undefined
                => knobs'.parallaxConfig.intensity = knobs.parallaxConfig.intensity
          /\ knobs'.lastConfig.maxOffset = Undefined
                => knobs'.parallaxConfig.maxOffset = knobs.parallaxConfig.maxOffset]_vars

\* C23: a resize from logical size (W_old, H_old) to (W_new, H_new) multiplies
\* every origin x by W_new / W_old and every origin y by H_new / H_old (a
\* resize to the same size leaves the origins as they are, whatever the
\* devicePixelRatio), and puts each star within the jitter of its origin.
C23_OriginsFollowLogicalSize ==
    [][FieldResize =>
         /\ field'.originScale.xn * field.innerWidth
               = field'.originScale.xd * field'.innerWidth
         /\ field'.originScale.yn * field.innerHeight
               = field'.originScale.yd * field'.innerHeight
         /\ \A i \in DOMAIN stars' : stars'[i].x \in OffsetSamples]_vars

\* C24: in a frame a connection line is drawn only if pointer connections are
\* enabled and a pointer is present, and a pointer is present only between a
\* pointer-move and the next pointer-leave: no line before the first
\* pointer-move after construction, none after a pointer-leave.
C24_LinesOnlyWithPointer ==
    (op \in {"init", "frame", "setBackgroundOpacity"} /\ field.lines # {}) =>
        /\ field.mouseConnectionsEnabled
        /\ mouse.present
        /\ mouse.norm

\* C26: each time a shoot event starts, the delay drawn is in
\* [0.1 s, maxEventSeconds] and the shoot duration drawn is at most
\* maxShootDurationSeconds, for every configured pair of bounds.
C26_DrawsWithinBounds ==
    [][\A i \in DOMAIN stars :
          (~stars[i].isShooting /\ stars'[i].isShooting) =>
              /\ nextShootingStarDelay' >= minDelayMs
              /\ nextShootingStarDelay' <= settings.maxEventSeconds * MsPerSecond
              /\ stars'[i].shootDuration
                    <= settings.maxShootDurationSeconds * MsPerSecond]_vars

\* C27: at most one animation-frame request is pending at any time, under
\* every interleaving of frame callbacks with pause, resume,
\* setBackgroundOpacity, setConnectionOpacity and dispose: animationId names
\* the only pending request, and while the paused flag is set none is pending.
C27_OnePendingRequest ==
    /\ Cardinality(pending) <= 1
    /\ animationId # NoRequest => pending = {animationId}
    /\ animationId = NoRequest => pending = {}
    /\ isPaused => pending = {}

\* setBackgroundOpacity has cancelled the pending request and asked for a new
\* one, which is the only one pending
C27_Witness ==
    /\ op = "setBackgroundOpacity"
    /\ animationId # NoRequest
    /\ pending = {animationId}
    /\ lastTime = 0
    /\ ~isPaused

\* C28: once dispose has been called no frame request is issued again,
\* whatever is called next (resume, pause, setBackgroundOpacity,
\* setConnectionOpacity): the operation that follows a dispose leaves no
\* request pending and animationId null.
C28_NoRequestAfterDispose ==
    [][op = "dispose" => (pending' = {} /\ animationId' = NoRequest)]_vars

\* C29: while frames keep coming with increasing timestamps and the enabled
\* flag stays true, a particle that started shooting (with the end of its
\* shot within the horizon of the clock) eventually stops shooting, and the
\* step that ends the shot is the one that decrements the shared counter, by
\* exactly one.
C29_ShootEnds ==
    /\ (particle.isShooting
          /\ particle.shootStartTime + particle.shootDuration <= Horizon)
         ~> (~particle.isShooting \/ ~settings.enabled)
    /\ [][/\ (particle.isShooting /\ ~particle'.isShooting)
                => shootingStarsCount' = shootingStarsCount - 1
          /\ shootingStarsCount' < shootingStarsCount
                => (particle.isShooting /\ ~particle'.isShooting)]_vars

\* a shot that started at 1000 ms has ended, with shooting still enabled
C29_Witness ==
    /\ settings.enabled
    /\ ~particle.isShooting
    /\ particle.shootStartTime = FrameMs
    /\ particle.shootDuration > 0
    /\ now >= particle.shootStartTime + particle.shootDuration
    /\ shootingStarsCount = 0

\* C30: the shooting budget is never permanently exhausted.  With shooting
\* enabled, maxStarsAtOnce >= 1 and a non-empty collection, a counter at its
\* maximum is held by particles of the collection that are shooting (whose
\* shots end and release it); otherwise no frame can ever start a shoot or
\* decrement the counter again.
C30_BudgetNotStuck ==
    ( /\ settings.enabled
      /\ settings.maxStarsAtOnce >= 1
      /\ stars # <<>>
      /\ shootingStarsCount >= settings.maxStarsAtOnce )
        => \E i \in DOMAIN stars : stars[i].isShooting

====
